---------------------------- MODULE Spec2Model ----------------------------
(***************************************************************************)
(* Sidebar / thread-navigation state model of the dashboard frontend       *)
(* (SidebarLeft, FloatingMobileMenuButton, NavAgents, AppProviders,        *)
(* DashboardLayoutContent) and the settings table of the backend           *)
(* migration.                                                              *)
(***************************************************************************)
EXTENDS Integers, Sequences, FiniteSets, TLC

VARIABLES
    width,              \* viewport width in CSS pixels
    pathname,           \* usePathname(): a sequence of path characters
    searchParams,       \* useSearchParams()
    healthData,         \* useApiHealth().data : None or Some([status |-> ...])
    isCheckingHealth,   \* useApiHealth().isLoading
    healthError,        \* useApiHealth().error is set
    open,               \* SidebarProvider: desktop expanded flag
    openMobile,         \* SidebarProvider: mobile overlay flag
    listeners,          \* keydown listeners on window: the `state` each closure captured
    event,              \* name of the last event handled
    dispatched,         \* window events dispatched by the last step
    expected,           \* flag value the toggle-parity law predicts
    openedOnMobile,     \* Some(desktop flag before) once the overlay was opened and
                        \* the desktop flag not toggled since, else None
    loadingThreadId,    \* NavAgents useState
    threadsResponse,    \* useThreads().data : None or Some([threads |-> Seq])
    isThreadsLoading,   \* useThreads().isLoading
    threadsError,       \* useThreads().error is set
    settings,           \* rows of the settings table
    clock,              \* wall clock of the database server
    txn,                \* "none" | "active" | "aborted"
    txnStart,           \* start time of the latest transaction: its NOW()
    saved,              \* table contents at BEGIN
    sqlError            \* error raised by the last statement, or None

uiVars == <<width, pathname, searchParams, healthData, isCheckingHealth,
            healthError, open, openMobile, listeners, dispatched, expected,
            openedOnMobile, loadingThreadId, threadsResponse, isThreadsLoading, threadsError>>
dbVars == <<settings, clock, txn, txnStart, saved, sqlError>>
vars == <<event, uiVars, dbVars>>

\* an absent value (null / undefined) is the empty sequence, a present one <<v>>
None == <<>>
Some(v) == <<v>>

-----------------------------------------------------------------------------
(* Bounds and input sets *)

MaxThreads == 2
MaxClock == 2

Widths == {767, 768}
\* thread ids of the data source; "1" is a substring of "12"
IdPool == << <<"1", "2">>, <<"1">>, <<"2">> >>
ThreadIds == {IdPool[i] : i \in 1..MaxThreads}
Keys == {"b", "k"}
HealthStatuses == {"ok", "degraded"}
SettingKeys == {"llm.openai_api_key", "feature.x"}
JsonValues == {"true", "false"}
Times == 0..MaxClock
SearchParams == {"", "tab=1"}

-----------------------------------------------------------------------------
(* Layout shell *)

MOBILE_BREAKPOINT == 768

\* useIsMobile(): viewport width below the fixed breakpoint
IsMobile == width < MOBILE_BREAKPOINT

\* useSidebar().state
State == IF open THEN "expanded" ELSE "collapsed"

\* variant: the error of the health query is not consulted
isApiHealthy_IgnoresError ==
    /\ healthData # None
    /\ healthData[1].status = "ok"

\* healthData?.status === 'ok' && !healthError
isApiHealthy ==
    /\ healthData # None
    /\ healthData[1].status = "ok"
    /\ ~healthError

\* what DashboardLayoutContent returns
DashboardLayoutContent ==
    IF isCheckingHealth THEN "null"
    ELSE IF ~isApiHealthy THEN "maintenance"
    ELSE "AppProviders"

\* AppProviders renders <SidebarLeft /> unless showSidebar is false
AppProviders(showSidebar) ==
    IF ~showSidebar THEN [sidebar |-> FALSE, children |-> TRUE]
    ELSE [sidebar |-> TRUE, children |-> TRUE]

\* SidebarLeft (and NavAgents inside it) is in the rendered tree
SidebarRendered ==
    /\ DashboardLayoutContent = "AppProviders"
    /\ AppProviders(TRUE).sidebar

-----------------------------------------------------------------------------
(* NavAgents *)

SkeletonCount == 3

\* String.prototype.includes on sequences of characters
Includes(str, sub) ==
    \E i \in 0..(Len(str) - Len(sub)) : SubSeq(str, i + 1, i + Len(sub)) = sub

\* threadsResponse?.threads || []
threads == IF threadsResponse = None THEN <<>> ELSE threadsResponse[1].threads

\* variant: a failed fetch without data keeps the placeholders on screen
isLoading_OnError == (isThreadsLoading \/ threadsError) /\ Len(threads) = 0

\* variant: the placeholders are shown during every fetch, refetches included
isLoading_Refetching == isThreadsLoading

\* isThreadsLoading && threads.length === 0
isLoading == isThreadsLoading /\ Len(threads) = 0

\* `/agents/${thread.thread_id}`
Url(thread) == <<"/agents/">> \o thread.thread_id

\* pathname?.includes(thread.thread_id) || false
isActive(thread) == Includes(pathname, thread.thread_id)

\* variant: every row takes the spinner while any thread is marked
isThreadLoading_AnyMarked(thread) == loadingThreadId # None

\* loadingThreadId === thread.thread_id
isThreadLoading(thread) == loadingThreadId = thread.thread_id

\* one rendered <ThreadItem>
ThreadItem(thread) ==
    [key |-> thread.thread_id,
     href |-> Url(thread),
     isActive |-> isActive(thread),
     spinner |-> isThreadLoading(thread)]

\* variant: the rows are drawn newest-last, i.e. in reversed input order
NavAgentsView_Reversed ==
    IF ~(State # "collapsed" \/ IsMobile)
    THEN [skeletons |-> 0, rows |-> <<>>, empty |-> FALSE]
    ELSE IF isLoading
    THEN [skeletons |-> SkeletonCount, rows |-> <<>>, empty |-> FALSE]
    ELSE IF Len(threads) > 0
    THEN [skeletons |-> 0,
          rows |-> [i \in 1..Len(threads) |->
                       ThreadItem(threads[Len(threads) + 1 - i])],
          empty |-> FALSE]
    ELSE [skeletons |-> 0, rows |-> <<>>, empty |-> TRUE]

\* variant: the list is rendered in the desktop collapsed state as well
NavAgentsView_AlwaysShown ==
    IF isLoading
    THEN [skeletons |-> SkeletonCount, rows |-> <<>>, empty |-> FALSE]
    ELSE IF Len(threads) > 0
    THEN [skeletons |-> 0,
          rows |-> [i \in 1..Len(threads) |-> ThreadItem(threads[i])],
          empty |-> FALSE]
    ELSE [skeletons |-> 0, rows |-> <<>>, empty |-> TRUE]

\* the list NavAgents renders: placeholder rows, thread rows, empty message
NavAgentsView ==
    IF ~(State # "collapsed" \/ IsMobile)
    THEN [skeletons |-> 0, rows |-> <<>>, empty |-> FALSE]
    ELSE IF isLoading
    THEN [skeletons |-> SkeletonCount, rows |-> <<>>, empty |-> FALSE]
    ELSE IF Len(threads) > 0
    THEN [skeletons |-> 0,
          rows |-> [i \in 1..Len(threads) |-> ThreadItem(threads[i])],
          empty |-> FALSE]
    ELSE [skeletons |-> 0, rows |-> <<>>, empty |-> TRUE]

\* thread collections the data source can return: the first n threads of the
\* pool, newest first or oldest first
ThreadLists ==
    LET page(n) == [i \in 1..n |-> [thread_id |-> IdPool[i]]]
        reversed(l) == [i \in 1..Len(l) |-> l[Len(l) + 1 - i]]
    IN  {page(n) : n \in 0..MaxThreads} \cup {reversed(page(n)) : n \in 0..MaxThreads}

\* routes of the dashboard: <<pathname, search params>>
Routes ==
    {<<(<<"/dashboard">>), s>> : s \in SearchParams}
        \cup {<<Url(t), "">> : t \in [thread_id : ThreadIds]}

-----------------------------------------------------------------------------
(* Initial state: first render, health query in flight, migration applied *)

SeedRows ==
    {[key |-> "llm.openai_api_key", value |-> "null", created_at |-> 0, updated_at |-> 0],
     [key |-> "llm.anthropic_api_key", value |-> "null", created_at |-> 0, updated_at |-> 0],
     [key |-> "feature.new_tool_system_enabled", value |-> "true", created_at |-> 0, updated_at |-> 0]}

UIInit ==
    /\ width \in Widths
    /\ \E r \in Routes : pathname = r[1] /\ searchParams = r[2]
    /\ healthData = None
    /\ isCheckingHealth = TRUE
    /\ healthError = FALSE
    /\ open = TRUE
    /\ openMobile = FALSE
    /\ listeners = <<>>
    /\ event = "none"
    /\ dispatched = None
    /\ expected = TRUE
    /\ openedOnMobile = None
    /\ loadingThreadId = None
    /\ threadsResponse = None
    /\ isThreadsLoading = FALSE
    /\ threadsError = FALSE

DBInit ==
    /\ settings = SeedRows
    /\ clock = 0
    /\ txn = "none"
    /\ txnStart = 0
    /\ saved = {}
    /\ sqlError = None

Init == UIInit /\ DBInit

-----------------------------------------------------------------------------
(* SidebarLeft *)

\* variant: the effect tests the negated condition
CloseMobileEffect_Negated(isMobile) ==
    IF ~isMobile THEN openMobile' = FALSE ELSE UNCHANGED openMobile

\* useEffect(() => { if (isMobile) setOpenMobile(false) }, [pathname, searchParams, isMobile])
CloseMobileEffect(isMobile) ==
    IF isMobile THEN openMobile' = FALSE ELSE UNCHANGED openMobile

\* state.startsWith('expanded'), state being 'expanded' or 'collapsed'
StartsWithExpanded(state) == state = "expanded"

\* the `state` captured by the listener registered last, "none" without one
handlerState == IF listeners = <<>> THEN "none" ELSE listeners[Len(listeners)]

\* variant: the cleanup of the keydown effect removes nothing
KeydownEffectCleanup_Missing(ls) == ls

\* return () => window.removeEventListener('keydown', handleKeyDown):
\* the cleanup removes the closure its own effect run registered, the last one
KeydownEffectCleanup(ls) ==
    IF ls = <<>> THEN ls ELSE SubSeq(ls, 1, Len(ls) - 1)

\* a re-run of the keydown effect: the previous run's cleanup, then
\* window.addEventListener('keydown', handleKeyDown) with the current `state`
KeydownEffect(ls, state) == Append(KeydownEffectCleanup(ls), state)

\* variant: the shortcut toggles the mobile overlay on a narrow viewport
handleKeyDown_TogglesMobile(state, metaKey, ctrlKey, key) ==
    IF (metaKey \/ ctrlKey) /\ key = "b"
    THEN [setOpen |-> IF IsMobile THEN None ELSE Some(~StartsWithExpanded(state)),
          setOpenMobile |-> IF IsMobile THEN Some(~openMobile) ELSE None,
          dispatchEvent |-> Some([type |-> "sidebar-left-toggled",
                                  expanded |-> ~StartsWithExpanded(state)])]
    ELSE [setOpen |-> None, setOpenMobile |-> None, dispatchEvent |-> None]

\* the window keydown listener; `state` is the value its closure captured.
\* The result names the calls it makes.
handleKeyDown(state, metaKey, ctrlKey, key) ==
    IF (metaKey \/ ctrlKey) /\ key = "b"
    THEN [setOpen |-> Some(~StartsWithExpanded(state)),
          setOpenMobile |-> None,
          dispatchEvent |-> Some([type |-> "sidebar-left-toggled",
                                  expanded |-> ~StartsWithExpanded(state)])]
    ELSE [setOpen |-> None, setOpenMobile |-> None, dispatchEvent |-> None]

\* the value a state holds after a sequence of optional set calls: the last wins
LastSet(current, calls) ==
    LET made == {i \in DOMAIN calls : calls[i] # None}
    IN  IF made = {} THEN current
        ELSE calls[CHOOSE i \in made : \A j \in made : j <= i][1]

RECURSIVE Flatten(_)
Flatten(seqs) == IF seqs = <<>> THEN <<>> ELSE Head(seqs) \o Flatten(Tail(seqs))

\* a keydown event on window runs every registered listener, in order
KeyDown(metaKey, ctrlKey, key) ==
    /\ event' = "KeyDown"
    /\ SidebarRendered
    /\ LET calls == [i \in DOMAIN listeners |->
                        handleKeyDown(listeners[i], metaKey, ctrlKey, key)]
       IN  /\ open' = LastSet(open, [i \in DOMAIN calls |-> calls[i].setOpen])
           /\ openMobile' =
                  LastSet(openMobile, [i \in DOMAIN calls |-> calls[i].setOpenMobile])
           /\ dispatched' = Flatten([i \in DOMAIN calls |-> calls[i].dispatchEvent])
    /\ expected' = IF (metaKey \/ ctrlKey) /\ key = "b" THEN ~expected ELSE expected
    /\ UNCHANGED <<width, pathname, searchParams, healthData, isCheckingHealth,
                   healthError, listeners, loadingThreadId,
                   threadsResponse, isThreadsLoading, threadsError>>
    /\ openedOnMobile' = IF (metaKey \/ ctrlKey) /\ key = "b" THEN None ELSE openedOnMobile
    /\ UNCHANGED dbVars

\* re-render after a state change: the keydown effect is cleaned up and re-run,
\* so the listener registered from now on captures the current `state`
Commit ==
    /\ event' = "Commit"
    /\ SidebarRendered
    /\ handlerState # State
    /\ listeners' = KeydownEffect(listeners, State)
    /\ dispatched' = None
    /\ UNCHANGED <<width, pathname, searchParams, healthData, isCheckingHealth,
                   healthError, open, openMobile, expected, loadingThreadId,
                   threadsResponse, isThreadsLoading, threadsError>>
    /\ UNCHANGED openedOnMobile
    /\ UNCHANGED dbVars

\* the expand button shown over the logo while collapsed: setOpen(true)
ExpandButtonClick ==
    /\ event' = "ExpandButtonClick"
    /\ SidebarRendered
    /\ State = "collapsed"
    /\ open' = TRUE
    /\ expected' = TRUE
    /\ dispatched' = None
    /\ UNCHANGED <<width, pathname, searchParams, healthData, isCheckingHealth,
                   healthError, openMobile, listeners, loadingThreadId,
                   threadsResponse, isThreadsLoading, threadsError>>
    /\ openedOnMobile' = None
    /\ UNCHANGED dbVars

\* the header button: setOpenMobile(false) on mobile, setOpen(false) otherwise
HeaderCloseClick ==
    /\ event' = "HeaderCloseClick"
    /\ SidebarRendered
    /\ IF IsMobile
       THEN openMobile' = FALSE /\ UNCHANGED <<open, expected>>
       ELSE open' = FALSE /\ expected' = FALSE /\ UNCHANGED openMobile
    /\ dispatched' = None
    /\ UNCHANGED <<width, pathname, searchParams, healthData, isCheckingHealth,
                   healthError, listeners, loadingThreadId,
                   threadsResponse, isThreadsLoading, threadsError>>
    /\ openedOnMobile' = IF IsMobile THEN openedOnMobile ELSE None
    /\ UNCHANGED dbVars

\* the logo link and the New Chat link: isMobile && setOpenMobile(false)
DashboardLinkClick ==
    /\ event' = "DashboardLinkClick"
    /\ SidebarRendered
    /\ CloseMobileEffect(IsMobile)
    /\ dispatched' = None
    /\ UNCHANGED <<width, pathname, searchParams, healthData, isCheckingHealth,
                   healthError, open, listeners, expected, loadingThreadId,
                   threadsResponse, isThreadsLoading, threadsError>>
    /\ UNCHANGED openedOnMobile
    /\ UNCHANGED dbVars

\* variant: the button ignores whether the overlay is open
FloatingMobileMenuButtonVisible_IgnoresOpen ==
    /\ DashboardLayoutContent = "AppProviders"
    /\ IsMobile

\* FloatingMobileMenuButton: rendered iff isMobile && !openMobile
FloatingMobileMenuButtonVisible ==
    /\ DashboardLayoutContent = "AppProviders"
    /\ ~(~IsMobile \/ openMobile)

\* variant: the button opens the overlay and leaves the desktop flag alone
FloatingMobileMenuButtonClick_OverlayOnly ==
    /\ event' = "FloatingMobileMenuButtonClick"
    /\ FloatingMobileMenuButtonVisible
    /\ openMobile' = TRUE
    /\ dispatched' = None
    /\ UNCHANGED <<width, pathname, searchParams, healthData, isCheckingHealth,
                   healthError, open, expected, listeners, loadingThreadId,
                   threadsResponse, isThreadsLoading, threadsError>>
    /\ openedOnMobile' = Some(open)
    /\ UNCHANGED dbVars

FloatingMobileMenuButtonClick ==
    /\ event' = "FloatingMobileMenuButtonClick"
    /\ FloatingMobileMenuButtonVisible
    /\ open' = TRUE
    /\ openMobile' = TRUE
    /\ expected' = TRUE
    /\ dispatched' = None
    /\ UNCHANGED <<width, pathname, searchParams, healthData, isCheckingHealth,
                   healthError, listeners, loadingThreadId,
                   threadsResponse, isThreadsLoading, threadsError>>
    /\ openedOnMobile' = Some(open)
    /\ UNCHANGED dbVars

\* navigation: pathname or search params change; SidebarLeft's effect re-runs
RouteChange(p, s) ==
    /\ event' = "RouteChange"
    /\ <<p, s>> \in Routes
    /\ <<p, s>> # <<pathname, searchParams>>
    /\ pathname' = p
    /\ searchParams' = s
    /\ IF SidebarRendered THEN CloseMobileEffect(IsMobile) ELSE UNCHANGED openMobile
    /\ dispatched' = None
    /\ UNCHANGED <<width, healthData, isCheckingHealth, healthError, open,
                   listeners, expected, loadingThreadId,
                   threadsResponse, isThreadsLoading, threadsError>>
    /\ UNCHANGED openedOnMobile
    /\ UNCHANGED dbVars

\* viewport resize; both effects of SidebarLeft re-run when isMobile changes
Resize(w) ==
    /\ event' = "Resize"
    /\ w # width
    /\ width' = w
    /\ IF SidebarRendered /\ IsMobile' # IsMobile
       THEN /\ CloseMobileEffect(IsMobile')
            /\ listeners' = KeydownEffect(listeners, State)
       ELSE UNCHANGED <<openMobile, listeners>>
    /\ dispatched' = None
    /\ UNCHANGED <<pathname, searchParams, healthData, isCheckingHealth,
                   healthError, open, expected, loadingThreadId,
                   threadsResponse, isThreadsLoading, threadsError>>
    /\ UNCHANGED openedOnMobile
    /\ UNCHANGED dbVars

-----------------------------------------------------------------------------
(* NavAgents *)

\* variant: only a plain click closes the mobile overlay
handleThreadClick_PlainOnly(metaKey, ctrlKey, threadId) ==
    /\ loadingThreadId' = IF ~metaKey THEN threadId ELSE loadingThreadId
    /\ openMobile' = IF IsMobile /\ ~metaKey THEN FALSE ELSE openMobile

\* handleThreadClick(e, threadId, url)
handleThreadClick(metaKey, ctrlKey, threadId) ==
    /\ loadingThreadId' = IF ~metaKey THEN threadId ELSE loadingThreadId
    /\ openMobile' = IF IsMobile THEN FALSE ELSE openMobile

\* a click on the rendered row of `thread`
ThreadClick(thread, metaKey, ctrlKey) ==
    /\ event' = "ThreadClick"
    /\ SidebarRendered
    /\ \E i \in DOMAIN NavAgentsView.rows :
          NavAgentsView.rows[i].key = thread.thread_id
    /\ handleThreadClick(metaKey, ctrlKey, thread.thread_id)
    /\ dispatched' = None
    /\ UNCHANGED <<width, pathname, searchParams, healthData, isCheckingHealth,
                   healthError, open, listeners, expected,
                   threadsResponse, isThreadsLoading, threadsError>>
    /\ UNCHANGED openedOnMobile
    /\ UNCHANGED dbVars

\* useThreads({}) : the request resolves with a thread collection
ThreadsResolve(list) ==
    /\ event' = "ThreadsResolve"
    /\ SidebarRendered
    /\ isThreadsLoading
    /\ threadsResponse' = Some([threads |-> list])
    /\ isThreadsLoading' = FALSE
    /\ threadsError' = FALSE
    /\ dispatched' = None
    /\ UNCHANGED <<width, pathname, searchParams, healthData, isCheckingHealth,
                   healthError, open, openMobile, listeners, expected,
                   loadingThreadId>>
    /\ UNCHANGED openedOnMobile
    /\ UNCHANGED dbVars

\* useThreads({}) : the request fails; data already held is kept
ThreadsFail ==
    /\ event' = "ThreadsFail"
    /\ SidebarRendered
    /\ isThreadsLoading
    /\ isThreadsLoading' = FALSE
    /\ threadsError' = TRUE
    /\ dispatched' = None
    /\ UNCHANGED <<width, pathname, searchParams, healthData, isCheckingHealth,
                   healthError, open, openMobile, listeners, expected,
                   loadingThreadId, threadsResponse>>
    /\ UNCHANGED openedOnMobile
    /\ UNCHANGED dbVars

\* useThreads({}) : a new request goes out
ThreadsRefetch ==
    /\ event' = "ThreadsRefetch"
    /\ SidebarRendered
    /\ ~isThreadsLoading
    /\ isThreadsLoading' = TRUE
    /\ dispatched' = None
    /\ UNCHANGED <<width, pathname, searchParams, healthData, isCheckingHealth,
                   healthError, open, openMobile, listeners, expected,
                   loadingThreadId, threadsResponse, threadsError>>
    /\ UNCHANGED openedOnMobile
    /\ UNCHANGED dbVars

-----------------------------------------------------------------------------
(* DashboardLayoutContent: the health query decides what is mounted *)

\* React state of a subtree is created on mount and discarded on unmount
LayoutTransition ==
    IF SidebarRendered' = SidebarRendered
    THEN UNCHANGED <<open, openMobile, listeners, expected, openedOnMobile,
                     loadingThreadId, isThreadsLoading>>
    ELSE /\ open' = TRUE
         /\ openMobile' = FALSE
         /\ expected' = TRUE
         /\ openedOnMobile' = None
         /\ loadingThreadId' = None
         /\ listeners' = IF SidebarRendered'
                         THEN Append(listeners, "expanded")
                         ELSE KeydownEffectCleanup(listeners)
         /\ isThreadsLoading' = SidebarRendered'

HealthResolve(status) ==
    /\ event' = "HealthResolve"
    /\ healthData' = Some([status |-> status])
    /\ healthError' = FALSE
    /\ isCheckingHealth' = FALSE
    /\ LayoutTransition
    /\ dispatched' = None
    /\ UNCHANGED <<width, pathname, searchParams, threadsResponse, threadsError>>
    /\ UNCHANGED dbVars

HealthFail ==
    /\ event' = "HealthFail"
    /\ healthError' = TRUE
    /\ isCheckingHealth' = FALSE
    /\ UNCHANGED healthData
    /\ LayoutTransition
    /\ dispatched' = None
    /\ UNCHANGED <<width, pathname, searchParams, threadsResponse, threadsError>>
    /\ UNCHANGED dbVars

-----------------------------------------------------------------------------

Next ==
    \/ \E m, c \in BOOLEAN, k \in Keys : KeyDown(m, c, k)
    \/ Commit
    \/ ExpandButtonClick
    \/ HeaderCloseClick
    \/ DashboardLinkClick
    \/ FloatingMobileMenuButtonClick
    \/ \E r \in Routes : RouteChange(r[1], r[2])
    \/ \E w \in Widths : Resize(w)
    \/ \E t \in [thread_id : ThreadIds], m, c \in BOOLEAN : ThreadClick(t, m, c)
    \/ \E l \in ThreadLists : ThreadsResolve(l)
    \/ ThreadsFail
    \/ ThreadsRefetch
    \/ \E st \in HealthStatuses : HealthResolve(st)
    \/ HealthFail

Spec == Init /\ [][Next]_vars

\* React's scheduler always runs a pending re-render
FairSpec == Spec /\ WF_vars(Commit)

-----------------------------------------------------------------------------
(* The settings table.  Every statement runs in a transaction; NOW() is the  *)
(* start time of that transaction, and transactions start at distinct times. *)

\* NOW() = transaction_timestamp()
Now == txnStart

\* variant: the trigger function returns NEW untouched
set_updated_at_timestamp_Noop(new) == new

\* BEFORE UPDATE ... FOR EACH ROW: NEW.updated_at = NOW(); RETURN NEW
set_updated_at_timestamp(new) == [new EXCEPT !.updated_at = Now]

\* variant: the key column carries no uniqueness constraint
PrimaryKeyViolation_Never(k) == FALSE

\* key TEXT PRIMARY KEY: a row with this key is already in the table
PrimaryKeyViolation(k) == \E r \in settings : r.key = k

\* the row INSERT INTO settings (key, value) builds: both timestamps DEFAULT NOW()
NewRow(k, v) == [key |-> k, value |-> v, created_at |-> Now, updated_at |-> Now]

Tick ==
    /\ event' = "Tick"
    /\ clock < MaxClock
    /\ clock' = clock + 1
    /\ UNCHANGED <<settings, txn, txnStart, saved, sqlError>>
    /\ UNCHANGED uiVars

Begin ==
    /\ event' = "Begin"
    /\ txn = "none"
    /\ clock > txnStart
    /\ txn' = "active"
    /\ txnStart' = clock
    /\ saved' = settings
    /\ sqlError' = None
    /\ UNCHANGED <<settings, clock>>
    /\ UNCHANGED uiVars

\* COMMIT; of a failed transaction it is a ROLLBACK
CommitTxn ==
    /\ event' = "CommitTxn"
    /\ txn # "none"
    /\ settings' = IF txn = "aborted" THEN saved ELSE settings
    /\ txn' = "none"
    /\ saved' = {}
    /\ UNCHANGED <<clock, txnStart, sqlError>>
    /\ UNCHANGED uiVars

Rollback ==
    /\ event' = "Rollback"
    /\ txn # "none"
    /\ settings' = saved
    /\ txn' = "none"
    /\ saved' = {}
    /\ UNCHANGED <<clock, txnStart, sqlError>>
    /\ UNCHANGED uiVars

\* the roles that issue statements: the policy's role, another API role,
\* and the role that ran the migration and therefore owns the table.  All of
\* them hold the table privileges; what they may touch is up to row security.
TableOwner == "postgres"
Roles == {"service_role", "anon", TableOwner}

\* ALTER TABLE settings ENABLE ROW LEVEL SECURITY, without FORCE
RowSecurity == [enabled |-> TRUE, forced |-> FALSE]

\* row security is not applied to the table owner unless it is forced
BypassesRowSecurity(role) ==
    \/ ~RowSecurity.enabled
    \/ role = TableOwner /\ ~RowSecurity.forced

\* variant: the policy is created TO public
PolicyApplies_AnyRole(role) == TRUE

\* CREATE POLICY "Allow service_role full access" ... FOR ALL TO service_role
PolicyApplies(role) == role = "service_role"

\* USING (true)
Using(row) == TRUE

\* WITH CHECK (true)
WithCheck(row) == TRUE

\* the rows a statement of `role` finds; no applicable policy means none
Visible(role) ==
    IF BypassesRowSecurity(role) THEN settings
    ELSE {r \in settings : PolicyApplies(role) /\ Using(r)}

\* whether `role` may store `row`
MayStore(role, row) ==
    \/ BypassesRowSecurity(role)
    \/ PolicyApplies(role) /\ WithCheck(row)

\* what a statement does: the error it raises, the table it leaves, and the
\* rows it returns (SELECT) or writes (INSERT, UPDATE, DELETE)
Refused(error) == [error |-> Some(error), rows |-> settings, result |-> {}]
Done(rows, result) == [error |-> None, rows |-> rows, result |-> result]

\* SELECT * FROM settings
Select(role) == Done(settings, Visible(role))

\* INSERT INTO settings (key, value) VALUES (k, v)
InsertRow(role, k, v) ==
    IF ~MayStore(role, NewRow(k, v)) THEN Refused("insufficient_privilege")
    ELSE IF PrimaryKeyViolation(k) THEN Refused("unique_violation")
    ELSE Done(settings \cup {NewRow(k, v)}, {NewRow(k, v)})

\* the NEW row of UPDATE settings SET value = v [, updated_at = u] WHERE key = ...
Assigned(old, v, u) ==
    IF u = None
    THEN [old EXCEPT !.value = v]
    ELSE [old EXCEPT !.value = v, !.updated_at = u[1]]

\* UPDATE settings SET value = v [, updated_at = u] WHERE key = k
UpdateRows(role, k, v, u) ==
    LET targets == {r \in Visible(role) : r.key = k}
        written == {set_updated_at_timestamp(Assigned(r, v, u)) : r \in targets}
    IN  IF \E n \in written : ~MayStore(role, n)
        THEN Refused("insufficient_privilege")
        ELSE Done((settings \ targets) \cup written, written)

\* DELETE FROM settings WHERE key = k
DeleteRows(role, k) ==
    LET targets == {r \in Visible(role) : r.key = k}
    IN  Done(settings \ targets, targets)

\* the statement runs in the open transaction; an error aborts the transaction
Execute(statement) ==
    /\ txn = "active"
    /\ settings' = statement.rows
    /\ sqlError' = statement.error
    /\ txn' = IF statement.error = None THEN txn ELSE "aborted"
    /\ UNCHANGED <<clock, txnStart, saved>>
    /\ UNCHANGED uiVars

SelectAs(role) == event' = "Select" /\ Execute(Select(role))

InsertAs(role, k, v) == event' = "Insert" /\ Execute(InsertRow(role, k, v))

UpdateAs(role, k, v, u) == event' = "Update" /\ Execute(UpdateRows(role, k, v, u))

DeleteAs(role, k) == event' = "Delete" /\ Execute(DeleteRows(role, k))

\* the statements of the privileged caller
Insert(k, v) == InsertAs("service_role", k, v)
Update(k, v, u) == UpdateAs("service_role", k, v, u)

SuppliedTimes == {None} \cup {Some(t) : t \in Times}

SettingsNext ==
    \/ Tick
    \/ Begin
    \/ CommitTxn
    \/ Rollback
    \/ \E role \in Roles : SelectAs(role)
    \/ \E role \in Roles, k \in SettingKeys, v \in JsonValues : InsertAs(role, k, v)
    \/ \E role \in Roles, k \in SettingKeys, v \in JsonValues, u \in SuppliedTimes :
          UpdateAs(role, k, v, u)
    \/ \E role \in Roles, k \in SettingKeys : DeleteAs(role, k)

SettingsInit ==
    /\ Init
    /\ width = 768
    /\ pathname = <<"/dashboard">>
    /\ searchParams = ""

SettingsSpec == SettingsInit /\ [][SettingsNext]_vars

-----------------------------------------------------------------------------
(* Properties of the sidebar and the thread list *)

Threads == [thread_id : ThreadIds]

ToggleEvent(expanded) == Some([type |-> "sidebar-left-toggled", expanded |-> expanded])

SpinnerRows == {i \in DOMAIN NavAgentsView.rows : NavAgentsView.rows[i].spinner}

\* C1: while mobile, a route change closes the mobile overlay and leaves the
\* desktop expanded flag alone; while not mobile it changes neither flag.
C1_RouteChangeClosesOverlayOnly ==
    [][\A r \in Routes :
          (SidebarRendered /\ RouteChange(r[1], r[2])) =>
              /\ open' = open
              /\ (IsMobile => openMobile' = FALSE)
              /\ (~IsMobile => openMobile' = openMobile)]_vars

\* C1 witness: a route change handled on mobile with the desktop flag collapsed
C1_Witness ==
    /\ SidebarRendered
    /\ event = "RouteChange"
    /\ IsMobile
    /\ ~openMobile
    /\ ~open

\* C2: the expanded flag equals the initial flag XOR the parity of the number
\* of shortcut toggles, also for toggles delivered before the re-render.
C2_ToggleParity ==
    SidebarRendered => open = expected

\* C3: at most one rendered row shows the spinner, and a plain click on a row
\* makes the clicked thread the marked one.
C3_SingleLoadingTarget ==
    /\ [](SidebarRendered => Cardinality(SpinnerRows) <= 1)
    /\ [][\A t \in Threads :
             ThreadClick(t, FALSE, FALSE) =>
                 /\ loadingThreadId' = t.thread_id
                 /\ \A i \in DOMAIN NavAgentsView'.rows :
                       NavAgentsView'.rows[i].spinner <=>
                           NavAgentsView'.rows[i].key = t.thread_id]_vars

\* C3 witness: two rows rendered after a click, the spinner on the second only
C3_Witness ==
    /\ SidebarRendered
    /\ event = "ThreadClick"
    /\ Len(NavAgentsView.rows) = 2
    /\ SpinnerRows = {2}

\* C4: once the health query has settled, status "ok" without error renders
\* the shell with the sidebar mounted; anything else renders the maintenance
\* view with no sidebar mounted.
C4_MaintenanceIffUnhealthy ==
    ~isCheckingHealth =>
        IF healthData # None /\ healthData[1].status = "ok" /\ ~healthError
        THEN /\ DashboardLayoutContent = "AppProviders"
             /\ SidebarRendered
             /\ handlerState # "none"
        ELSE /\ DashboardLayoutContent = "maintenance"
             /\ ~SidebarRendered
             /\ handlerState = "none"

\* C4 witness: data says "ok" but a later request failed: maintenance is shown
C4_Witness ==
    /\ ~isCheckingHealth
    /\ healthData = Some([status |-> "ok"])
    /\ healthError
    /\ DashboardLayoutContent = "maintenance"
    /\ event = "HealthFail"

RowKeys == [i \in DOMAIN NavAgentsView.rows |-> NavAgentsView.rows[i].key]
ThreadKeys == [i \in DOMAIN threads |-> threads[i].thread_id]
ListVisible == State # "collapsed" \/ IsMobile

C5_Body ==
    /\ (~isThreadsLoading /\ Len(threads) = 0) =>
           NavAgentsView = [skeletons |-> 0, rows |-> <<>>, empty |-> TRUE]
    /\ Len(threads) > 0 =>
           /\ RowKeys = ThreadKeys
           /\ NavAgentsView.skeletons = 0
           /\ ~NavAgentsView.empty
           /\ \A i, j \in DOMAIN RowKeys : RowKeys[i] = RowKeys[j] => i = j

\* C5 (as stated): a completed load with zero threads shows exactly the empty
\* message; a non-empty collection shows one row per thread, in input order.
C5_Original ==
    SidebarRendered => C5_Body

\* C5 (amended): the same, whenever the list is shown, i.e. the sidebar is
\* not in the desktop collapsed state.
C5_RowsWhenListVisible ==
    (SidebarRendered /\ ListVisible) => C5_Body

\* C5 witness: two rows rendered in the data source's order, which is not sorted
C5_Witness ==
    /\ SidebarRendered
    /\ ListVisible
    /\ RowKeys = << <<"1", "2">>, <<"1">> >>

\* C6: a click with the platform modifier held (Meta or Ctrl) never changes
\* the loading marker; a plain click sets it to the clicked thread.
C6_ModifiedClickKeepsMarker ==
    [][\A t \in Threads, m, c \in BOOLEAN :
          ThreadClick(t, m, c) =>
              IF m \/ c
              THEN loadingThreadId' = loadingThreadId
              ELSE loadingThreadId' = t.thread_id]_vars

\* C7: every desktop toggle of the expanded flag (shortcut, header collapse
\* button, expand button) dispatches 'sidebar-left-toggled' with the new flag.
C7_EveryToggleDispatches ==
    [][(/\ SidebarRendered
        /\ ~IsMobile
        /\ event' \in {"KeyDown", "ExpandButtonClick", "HeaderCloseClick"}
        /\ open' # open)
       => dispatched' = ToggleEvent(open')]_vars

\* C8: once a thread is marked and the route is that thread's page, the marker
\* is eventually cleared while the sidebar stays mounted.
C8_MarkerEventuallyCleared ==
    \A t \in Threads :
        (/\ SidebarRendered
         /\ event = "RouteChange"
         /\ loadingThreadId = t.thread_id
         /\ pathname = Url(t))
            ~> (loadingThreadId = None \/ ~SidebarRendered)

-----------------------------------------------------------------------------
(* Properties of the settings table *)

\* what an UPDATE of key k to value v must leave in the table
UpdateApplied(k, v) ==
    /\ \A r \in settings :
          IF r.key = k
          THEN [r EXCEPT !.value = v, !.updated_at = Now] \in settings'
          ELSE r \in settings'
    /\ Cardinality(settings') = Cardinality(settings)

C10_UniqueKey ==
    /\ [](\A r1, r2 \in settings : r1.key = r2.key => r1 = r2)
    /\ [][\A k \in SettingKeys, v \in JsonValues :
             (Insert(k, v) /\ \E r \in settings : r.key = k) =>
                 /\ settings' = settings
                 /\ sqlError' = Some("unique_violation")]_vars

\* C10 witness: a second insert of the seeded key has just been rejected
C10_Witness ==
    /\ event = "Insert"
    /\ sqlError = Some("unique_violation")
    /\ txn = "aborted"
    /\ Cardinality({r \in settings : r.key = "llm.openai_api_key"}) = 1
    /\ Cardinality(settings) = 4

\* C11: in the healthy layout shell the floating reopen button is visible
\* exactly when the viewport is narrow and the mobile overlay is closed.
C11_FloatingButtonVisibility ==
    DashboardLayoutContent = "AppProviders" =>
        /\ FloatingMobileMenuButtonVisible <=> (IsMobile /\ ~openMobile)
        /\ ~IsMobile => ~FloatingMobileMenuButtonVisible
        /\ openMobile => ~FloatingMobileMenuButtonVisible

\* the button was pressed on a narrow viewport and is hidden behind the overlay
C11_Witness ==
    /\ event = "FloatingMobileMenuButtonClick"
    /\ DashboardLayoutContent = "AppProviders"
    /\ IsMobile
    /\ openMobile
    /\ ~FloatingMobileMenuButtonVisible

\* C12: a keydown step, the Cmd/Ctrl+B shortcut included, leaves the
\* mobile-open flag unchanged on every viewport and overlay state.
C12_ShortcutKeepsOpenMobile ==
    [][\A m, c \in BOOLEAN, k \in Keys :
          KeyDown(m, c, k) => openMobile' = openMobile]_vars

\* the shortcut toggled the desktop flag on mobile while the overlay was open
C12_Witness ==
    /\ event = "KeyDown"
    /\ dispatched # None
    /\ IsMobile
    /\ openMobile
    /\ ~open

\* C13: a resize across the mobile breakpoint resets the sidebar to the
\* default of the viewport entered: overlay closed on entering mobile,
\* sidebar expanded on entering desktop, whatever the flags were before.
C13_ResizeResetsToDefault ==
    [][\A w \in Widths :
          (SidebarRendered /\ Resize(w) /\ IsMobile' # IsMobile) =>
              IF IsMobile' THEN ~openMobile' ELSE open']_vars

\* C14: at most one keydown listener of SidebarLeft is registered at any time
\* (exactly one while it is mounted, none once it is unmounted), and a
\* Cmd/Ctrl+B keypress while mounted is handled exactly once.
C14_SingleKeydownListener ==
    /\ [](Len(listeners) = IF SidebarRendered THEN 1 ELSE 0)
    /\ [][\A m, c \in BOOLEAN :
             ((m \/ c) /\ KeyDown(m, c, "b")) => Len(dispatched') = 1]_vars

\* the shortcut was handled once by a listener registered by a re-run effect
C14_Witness ==
    /\ event = "KeyDown"
    /\ listeners = <<"collapsed">>
    /\ Len(dispatched) = 1
    /\ open

ViewsShown ==
    {v \in {"loading", "populated", "empty"} :
        \/ v = "loading" /\ NavAgentsView.skeletons > 0
        \/ v = "populated" /\ Len(NavAgentsView.rows) > 0
        \/ v = "empty" /\ NavAgentsView.empty}

C18_ThreadClickClosesOverlay ==
    [][\A t \in Threads, m, c \in BOOLEAN :
          ThreadClick(t, m, c) =>
              IF IsMobile
              THEN ~openMobile'
              ELSE openMobile' = openMobile /\ open' = open]_vars

\* a Meta-click on mobile closed the overlay and marked no thread
C18_Witness ==
    /\ event = "ThreadClick"
    /\ IsMobile
    /\ ~openMobile
    /\ loadingThreadId = None

DesktopCollapsed == SidebarRendered /\ State = "collapsed" /\ ~IsMobile

\* C19: in the desktop collapsed state NavAgents renders no placeholder row,
\* no thread row and no empty message, whatever the thread fetch reports; no
\* thread-row click can happen there, and a step taken there leaves the
\* loading marker as it was for as long as the sidebar stays mounted.
C19_CollapsedRendersNoList ==
    /\ [](DesktopCollapsed =>
              NavAgentsView = [skeletons |-> 0, rows |-> <<>>, empty |-> FALSE])
    /\ [][DesktopCollapsed =>
              /\ \A t \in Threads, m, c \in BOOLEAN : ~ThreadClick(t, m, c)
              /\ SidebarRendered' => loadingThreadId' = loadingThreadId]_vars

\* collapsed on desktop with two threads held and one of them marked
C19_Witness ==
    /\ DesktopCollapsed
    /\ Len(threads) = 2
    /\ loadingThreadId # None
    /\ NavAgentsView.rows = <<>>
    /\ ~isThreadsLoading

\* C20: only the floating reopen button opens the mobile overlay, and its
\* click sets both the mobile-open and the desktop expanded flag; so on a
\* desktop viewport reached after the overlay was opened, with no desktop
\* toggle since, the sidebar is expanded.
C20_OverlayOpenExpandsDesktop ==
    /\ [][(openMobile' /\ ~openMobile) =>
              event' = "FloatingMobileMenuButtonClick"]_vars
    /\ [][FloatingMobileMenuButtonClick => open' /\ openMobile']_vars
    /\ []((SidebarRendered /\ openedOnMobile # None /\ ~IsMobile) =>
              State = "expanded")

\* collapsed, overlay opened on mobile, then resized to desktop: expanded
C20_Witness ==
    /\ SidebarRendered
    /\ event = "Resize"
    /\ ~IsMobile
    /\ openedOnMobile = Some(FALSE)
    /\ State = "expanded"

\* every statement `role` can issue in the open transaction
StatementsOf(role) ==
    {Select(role)}
    \cup {InsertRow(role, k, v) : k \in SettingKeys, v \in JsonValues}
    \cup {UpdateRows(role, k, v, u) :
             k \in SettingKeys, v \in JsonValues, u \in SuppliedTimes}
    \cup {DeleteRows(role, k) : k \in SettingKeys}

\* the statement reveals no row and changes no row
Denied(statement) == statement.rows = settings /\ statement.result = {}

\* service_role reads every row and its writes are applied to every row
ServiceRolePermitted ==
    /\ Select("service_role").result = settings
    /\ \A k \in SettingKeys, v \in JsonValues :
          LET done == InsertRow("service_role", k, v)
          IN  IF \E r \in settings : r.key = k
              THEN done.error = Some("unique_violation")
              ELSE done.error = None /\ NewRow(k, v) \in done.rows
    /\ \A k \in SettingKeys, v \in JsonValues, u \in SuppliedTimes :
          LET done == UpdateRows("service_role", k, v, u)
          IN  /\ done.error = None
              /\ \A r \in settings :
                    IF r.key = k
                    THEN [r EXCEPT !.value = v, !.updated_at = Now] \in done.rows
                    ELSE r \in done.rows
    /\ \A k \in SettingKeys :
          LET done == DeleteRows("service_role", k)
          IN  /\ done.error = None
              /\ done.rows = {r \in settings : r.key # k}

\* C16 (as stated): every statement of a role other than service_role is
\* denied, and service_role is permitted every operation on every row.
C16_Original ==
    txn = "active" =>
        /\ ServiceRolePermitted
        /\ \A role \in Roles \ {"service_role"} :
              \A statement \in StatementsOf(role) : Denied(statement)

\* C16 (amended): the same for the roles that row security applies to; the
\* table owner is not one of them, since row security is enabled, not forced.
C16_OnlyServiceRoleUnderRowSecurity ==
    txn = "active" =>
        /\ ServiceRolePermitted
        /\ \A role \in Roles \ {"service_role"} :
              ~BypassesRowSecurity(role) =>
                  \A statement \in StatementsOf(role) : Denied(statement)

\* an INSERT by anon was refused after a privileged INSERT had added a row
C16_Witness ==
    /\ event = "Insert"
    /\ sqlError = Some("insufficient_privilege")
    /\ txn = "aborted"
    /\ Cardinality(settings) = 4

=============================================================================
